---- MODULE Spec2Model ----
(***************************************************************************)
(* Model of the zognorp Sudoku solver: the grid model (puzzle.rs), the     *)
(* comparator-based merge sort (sort.rs) and the recursive backtracking    *)
(* solver (solver.rs).                                                     *)
(*                                                                         *)
(* Three specifications share the module:                                  *)
(*   Spec      the call stack of solve_sudoku on a starting grid           *)
(*   SortSpec  the call stack of merge_sort on an input slice              *)
(*   GridSpec  Puzzle::possibilities applied to the cells of a grid        *)
(***************************************************************************)
EXTENDS Integers, Sequences, FiniteSets

VARIABLES
    start,      \* the Puzzle handed to the outermost solve_sudoku call
    stack,      \* call stack of solve_sudoku, outermost frame first
    ret,        \* value returned by the call that just ended, or the outcome
    array,      \* the slice handed to the outermost merge_sort call
    sstack,     \* call stack of merge_sort, outermost frame first
    sret,       \* value returned by the merge_sort call that just ended
    grid,       \* the Puzzle that possibilities is queried on
    query       \* the last possibilities call: cell index and returned set

vars == <<start, stack, ret, array, sstack, sret, grid, query>>

solverVars == <<start, stack, ret>>
sortVars == <<array, sstack, sret>>
gridVars == <<grid, query>>

-----------------------------------------------------------------------------
(* Bounds of the model *)

\* longest slice handed to merge_sort in SortSpec
MaxLen == 4
\* largest candidate set an item carries in SortSpec
MaxKey == 3
\* cells of the starting grid that are left open to the input
NumHoles == 5
\* cells of the queried grid that are left open to the input in GridSpec
NumFree == 2
\* call depth of merge_sort at which the thread's stack is exhausted
StackLimit == 6

Last(s) == s[Len(s)]
Front(s) == SubSeq(s, 1, Len(s) - 1)

-----------------------------------------------------------------------------
(* puzzle.rs *)

\* Cell: Unset is 0, One..Nine are 1..9 (the From<u8> conversion, exact).
Unset == 0
Digits == 1..9
Cells == 0..9

\* [Cell; 81], indexed 0..80 in row-major order
CellCount == 81
GroupSize == 9
Indexes == 0..(CellCount - 1)
GroupIndexes == 0..(GroupSize - 1)

is_set(cell) == cell # Unset

\* set_cell writing one cell too far
set_cell_off_by_one(puzzle, index, cell) ==
    [puzzle EXCEPT ![(index + 1) % CellCount] = cell]

\* Puzzle::set_cell: a copy of the cells with one of them replaced
set_cell(puzzle, index, cell) == [puzzle EXCEPT ![index] = cell]

\* Puzzle::iter_unset_cells: the indexes of the unset cells, ascending
RECURSIVE UnsetFrom(_, _)
UnsetFrom(puzzle, i) ==
    IF i >= CellCount
    THEN <<>>
    ELSE (IF is_set(puzzle[i]) THEN <<>> ELSE <<i>>) \o UnsetFrom(puzzle, i + 1)

iter_unset_cells(puzzle) == UnsetFrom(puzzle, 0)

\* Puzzle::column, Puzzle::row, Puzzle::block: a group of 9 cells, indexed 0..8
column(puzzle, index) == [i \in GroupIndexes |-> puzzle[index + i * 9]]

row(puzzle, index) == [i \in GroupIndexes |-> puzzle[9 * index + i]]

block_start_index(index) ==
    CASE index \in 0..2 -> index * 3
      [] index \in 3..5 -> 27 + ((index % 3) * 3)
      [] index \in 6..8 -> 54 + ((index % 3) * 3)

block(puzzle, index) ==
    [i \in GroupIndexes |-> puzzle[block_start_index(index) + 9 * (i \div 3) + (i % 3)]]

\* the match with rows and columns taken for each other
block_index_transposed(row_index, column_index) ==
    (column_index \div 3) * 3 + (row_index \div 3)

\* the match of possibilities that finds the block of a (row, column)
block_index_of(row_index, column_index) ==
    CASE row_index \in 0..2 /\ column_index \in 0..2 -> 0
      [] row_index \in 0..2 /\ column_index \in 3..5 -> 1
      [] row_index \in 0..2 /\ column_index \in 6..8 -> 2
      [] row_index \in 3..5 /\ column_index \in 0..2 -> 3
      [] row_index \in 3..5 /\ column_index \in 3..5 -> 4
      [] row_index \in 3..5 /\ column_index \in 6..8 -> 5
      [] row_index \in 6..8 /\ column_index \in 0..2 -> 6
      [] row_index \in 6..8 /\ column_index \in 3..5 -> 7
      [] row_index \in 6..8 /\ column_index \in 6..8 -> 8

GroupCells(group) == {group[i] : i \in GroupIndexes}

\* possibilities without the cells of the column
possibilities_no_column(puzzle, cell_index) ==
    LET row_index == cell_index \div 9
        column_index == cell_index % 9
        block_index == block_index_of(row_index, column_index)
    IN  Digits \ (GroupCells(row(puzzle, row_index))
                    \cup GroupCells(block(puzzle, block_index)))

\* Puzzle::possibilities: One..Nine, minus every cell of the row, the column
\* and the block of the cell
possibilities(puzzle, cell_index) ==
    LET row_index == cell_index \div 9
        column_index == cell_index % 9
        block_index == block_index_of(row_index, column_index)
    IN  Digits \ (GroupCells(row(puzzle, row_index))
                    \cup GroupCells(column(puzzle, column_index))
                    \cup GroupCells(block(puzzle, block_index)))

\* <[Cell; 9] as Valid>::is_valid: scan the set cells, fail on a repeat
RECURSIVE GroupScan(_, _, _)
GroupScan(group, i, set) ==
    IF i >= GroupSize
    THEN TRUE
    ELSE IF ~is_set(group[i])
    THEN GroupScan(group, i + 1, set)
    ELSE IF group[i] \in set
    THEN FALSE
    ELSE GroupScan(group, i + 1, set \cup {group[i]})

group_is_valid(group) == GroupScan(group, 0, {})

\* <Puzzle as Valid>::is_valid
is_valid(puzzle) ==
    \A i \in GroupIndexes :
        /\ group_is_valid(row(puzzle, i))
        /\ group_is_valid(column(puzzle, i))
        /\ group_is_valid(block(puzzle, i))

\* is_solved without the validity check
is_solved_unchecked(puzzle) == \A i \in Indexes : is_set(puzzle[i])

\* Puzzle::is_solved
is_solved(puzzle) ==
    /\ is_valid(puzzle)
    /\ \A i \in Indexes : is_set(puzzle[i])

-----------------------------------------------------------------------------
(* sort.rs *)

\* The closure the solver passes as `compare`: items are (cell index,
\* candidate set) pairs, and an item comes before another when its set is
\* strictly smaller.
compare(x, y) == Cardinality(x[2]) < Cardinality(y[2])

\* merge with a loop that ends as soon as either slice is used up
RECURSIVE MergeLoopNoTail(_, _, _, _, _)
MergeLoopNoTail(a, b, index_a, index_b, out) ==
    IF index_a <= Len(a) /\ index_b <= Len(b)
    THEN IF compare(a[index_a], b[index_b])
         THEN MergeLoopNoTail(a, b, index_a + 1, index_b, Append(out, a[index_a]))
         ELSE MergeLoopNoTail(a, b, index_a, index_b + 1, Append(out, b[index_b]))
    ELSE out

\* merge: the loop of lines 34-58, one iteration per recursion step.
RECURSIVE MergeLoop(_, _, _, _, _)
MergeLoop(a, b, index_a, index_b, out) ==
    IF index_a <= Len(a) /\ index_b <= Len(b)
    THEN IF compare(a[index_a], b[index_b])
         THEN MergeLoop(a, b, index_a + 1, index_b, Append(out, a[index_a]))
         ELSE MergeLoop(a, b, index_a, index_b + 1, Append(out, b[index_b]))
    ELSE IF index_a <= Len(a)
    THEN MergeLoop(a, b, index_a + 1, index_b, Append(out, a[index_a]))
    ELSE IF index_b <= Len(b)
    THEN MergeLoop(a, b, index_a, index_b + 1, Append(out, b[index_b]))
    ELSE out

merge(a, b) == MergeLoop(a, b, 1, 1, <<>>)

\* array.split_at(array.len() / 2)
split_index(arr) == Len(arr) \div 2
SplitA(arr) == SubSeq(arr, 1, split_index(arr))
SplitB(arr) == SubSeq(arr, split_index(arr) + 1, Len(arr))

\* merge_sort as a function, for the slices on which its recursion ends.
RECURSIVE merge_sort(_)
merge_sort(arr) ==
    IF Len(arr) = 1
    THEN <<arr[1]>>
    ELSE merge(merge_sort(SplitA(arr)), merge_sort(SplitB(arr)))

\* A frame of merge_sort: its slice, where it stands, and sorted_a once known.
SortFrame(arr) == [array |-> arr, pc |-> "entry", sorted_a |-> <<>>]

NoValue == [kind |-> "none"]
Returned(v) == [kind |-> "value", value |-> v]
StackOverflow == [kind |-> "StackOverflow"]

SortRunning == sstack # <<>> /\ sret.kind = "none"

\* Line 9-11: the base case, taken only by a slice of length 1.
SortBaseCase ==
    /\ SortRunning
    /\ Last(sstack).pc = "entry"
    /\ Len(Last(sstack).array) = 1
    /\ sret' = Returned(<<Last(sstack).array[1]>>)
    /\ sstack' = Front(sstack)
    /\ UNCHANGED <<array, solverVars, gridVars>>

\* Lines 14-18: split the slice and call merge_sort on the first half.
SortCallA ==
    /\ SortRunning
    /\ Last(sstack).pc = "entry"
    /\ Len(Last(sstack).array) # 1
    /\ Len(sstack) < StackLimit
    /\ sstack' = Append([sstack EXCEPT ![Len(sstack)].pc = "sort_a"],
                        SortFrame(SplitA(Last(sstack).array)))
    /\ UNCHANGED <<array, sret, solverVars, gridVars>>

\* The call of line 18 needs a frame the thread's stack no longer has.
SortOverflow ==
    /\ SortRunning
    /\ Last(sstack).pc = "entry"
    /\ Len(Last(sstack).array) # 1
    /\ Len(sstack) >= StackLimit
    /\ sret' = StackOverflow
    /\ UNCHANGED <<array, sstack, solverVars, gridVars>>

\* Lines 18-19: sorted_a is back, call merge_sort on the second half.
SortCallB ==
    /\ sstack # <<>>
    /\ sret.kind = "value"
    /\ Last(sstack).pc = "sort_a"
    /\ sstack' = Append([sstack EXCEPT ![Len(sstack)].pc = "sort_b",
                                       ![Len(sstack)].sorted_a = sret.value],
                        SortFrame(SplitB(Last(sstack).array)))
    /\ sret' = NoValue
    /\ UNCHANGED <<array, solverVars, gridVars>>

\* Lines 19-22: sorted_b is back, merge the two halves and return.
SortMerge ==
    /\ sstack # <<>>
    /\ sret.kind = "value"
    /\ Last(sstack).pc = "sort_b"
    /\ sret' = Returned(merge(Last(sstack).sorted_a, sret.value))
    /\ sstack' = Front(sstack)
    /\ UNCHANGED <<array, solverVars, gridVars>>

-----------------------------------------------------------------------------
(* solver.rs *)

Ok(puzzle) == [kind |-> "Ok", puzzle |-> puzzle]
DeadEnd(puzzle) == [kind |-> "DeadEnd", puzzle |-> puzzle]

\* A frame of solve_sudoku: its puzzle, where it stands, the sorted list of
\* (cell index, candidate set) pairs, the place of the outer loop in that
\* list and the candidates the inner loop has not yet taken.
Frame(puzzle) ==
    [puzzle |-> puzzle, pc |-> "entry", all_possibilities |-> <<>>,
     index |-> 0, remaining |-> {}]

\* Lines 42-45: every unset cell with its candidate set, ascending by index
AllPossibilities(puzzle) ==
    LET unset == iter_unset_cells(puzzle)
    IN  [k \in 1..Len(unset) |-> <<unset[k], possibilities(puzzle, unset[k])>>]

Running == stack # <<>> /\ ret.kind = "none"

\* Lines 34-36: a solved puzzle is returned as it is.
ReturnSolved ==
    /\ Running
    /\ Last(stack).pc = "entry"
    /\ is_solved(Last(stack).puzzle) = TRUE
    /\ ret' = Ok(Last(stack).puzzle)
    /\ stack' = Front(stack)
    /\ UNCHANGED <<start, sortVars, gridVars>>

\* Lines 42-55: collect the candidates, sort them and enter the outer loop.
BeginSearch ==
    /\ Running
    /\ Last(stack).pc = "entry"
    /\ is_solved(Last(stack).puzzle) = FALSE
    /\ AllPossibilities(Last(stack).puzzle) # <<>>
    /\ LET sorted == merge_sort(AllPossibilities(Last(stack).puzzle))
       IN  stack' = [stack EXCEPT ![Len(stack)].pc = "loop",
                                  ![Len(stack)].all_possibilities = sorted,
                                  ![Len(stack)].index = 1,
                                  ![Len(stack)].remaining = sorted[1][2]]
    /\ UNCHANGED <<start, ret, sortVars, gridVars>>

\* Line 48 on a puzzle that is not solved and has no unset cell: merge_sort
\* is called on an empty slice, recurses without end and exhausts the stack.
SortEmptyOverflow ==
    /\ Running
    /\ Last(stack).pc = "entry"
    /\ is_solved(Last(stack).puzzle) = FALSE
    /\ AllPossibilities(Last(stack).puzzle) = <<>>
    /\ ret' = StackOverflow
    /\ UNCHANGED <<start, stack, sortVars, gridVars>>

\* Lines 56-60: the inner loop takes a candidate, in the order the HashSet
\* yields them, and solve_sudoku is called on the puzzle with the cell set.
Recurse ==
    /\ Running
    /\ Last(stack).pc = "loop"
    /\ \E possibility \in Last(stack).remaining :
        LET top == Last(stack)
            cell_index == top.all_possibilities[top.index][1]
            new_puzzle == set_cell(top.puzzle, cell_index, possibility)
        IN  stack' = Append(
                [stack EXCEPT ![Len(stack)].remaining = top.remaining \ {possibility}],
                Frame(new_puzzle))
    /\ UNCHANGED <<start, ret, sortVars, gridVars>>

\* Line 55: the candidates of a cell are used up, the outer loop moves on.
NextCell ==
    /\ Running
    /\ Last(stack).pc = "loop"
    /\ Last(stack).remaining = {}
    /\ Last(stack).index < Len(Last(stack).all_possibilities)
    /\ LET top == Last(stack)
       IN  stack' = [stack EXCEPT ![Len(stack)].index = top.index + 1,
                                  ![Len(stack)].remaining =
                                      top.all_possibilities[top.index + 1][2]]
    /\ UNCHANGED <<start, ret, sortVars, gridVars>>

\* Line 68: both loops are used up, the call fails with a dead end.
ReturnDeadEnd ==
    /\ Running
    /\ Last(stack).pc = "loop"
    /\ Last(stack).remaining = {}
    /\ Last(stack).index >= Len(Last(stack).all_possibilities)
    /\ ret' = DeadEnd(Last(stack).puzzle)
    /\ stack' = Front(stack)
    /\ UNCHANGED <<start, sortVars, gridVars>>

\* the caller returning its own puzzle instead of the solved one
PropagateOwnPuzzle ==
    /\ stack # <<>>
    /\ ret.kind = "Ok"
    /\ ret' = [kind |-> "Ok", puzzle |-> Last(stack).puzzle]
    /\ stack' = Front(stack)
    /\ UNCHANGED <<start, sortVars, gridVars>>

\* Line 61: the recursive call succeeded, the caller returns its result.
PropagateOk ==
    /\ stack # <<>>
    /\ ret.kind = "Ok"
    /\ stack' = Front(stack)
    /\ UNCHANGED <<start, ret, sortVars, gridVars>>

\* Line 62: the recursive call hit a dead end, the caller's loops go on.
\* (The arm of line 63 needs an InvalidRow, InvalidColumn or InvalidBlock
\* error, which no line of the program constructs.)
ContinueAfterDeadEnd ==
    /\ stack # <<>>
    /\ ret.kind = "DeadEnd"
    /\ ret' = NoValue
    /\ UNCHANGED <<start, stack, sortVars, gridVars>>

\* The puzzle of main.rs, and the one solved grid that keeps its set cells.
MainPuzzle ==
    << 5, 3, 0, 0, 7, 0, 0, 0, 0,
       6, 0, 0, 1, 9, 5, 0, 0, 0,
       0, 9, 8, 0, 0, 0, 0, 6, 0,
       8, 0, 0, 0, 6, 0, 0, 0, 3,
       4, 0, 0, 8, 0, 3, 0, 0, 1,
       7, 0, 0, 0, 2, 0, 0, 0, 6,
       0, 6, 0, 0, 0, 0, 2, 8, 0,
       0, 0, 0, 4, 1, 9, 0, 0, 5,
       0, 0, 0, 0, 8, 0, 0, 7, 9 >>

MainSolution ==
    << 5, 3, 4, 6, 7, 8, 9, 1, 2,
       6, 7, 2, 1, 9, 5, 3, 4, 8,
       1, 9, 8, 3, 4, 2, 5, 6, 7,
       8, 5, 9, 7, 6, 1, 4, 2, 3,
       4, 2, 6, 8, 5, 3, 7, 9, 1,
       7, 1, 3, 9, 2, 4, 8, 5, 6,
       9, 6, 1, 5, 3, 7, 2, 8, 4,
       2, 8, 7, 4, 1, 9, 6, 3, 5,
       3, 4, 5, 2, 8, 6, 1, 7, 9 >>

\* Puzzle::new on the cells of a literal
PuzzleOf(literal) == [i \in Indexes |-> literal[i + 1]]

\* Starting grids: the completed main puzzle with the cells of Holes given
\* any of HoleCells. Cells 16, 17, 61, 62 hold 4, 8, 8, 4 and cells 57, 62,
\* 66, 71 hold 5, 4, 4, 5: with the four cells of such a rectangle unset the
\* grid has two completions.
HoleOrder == <<16, 17, 61, 62, 57, 66, 71>>
Holes == {HoleOrder[k] : k \in 1..NumHoles}
HoleCells == {Unset} \cup {MainSolution[h + 1] : h \in Holes}

StartGrids ==
    {[i \in Indexes |-> IF i \in Holes THEN h[i] ELSE MainSolution[i + 1]] :
        h \in [Holes -> HoleCells]}

Init ==
    /\ start \in StartGrids
    /\ stack = <<Frame(start)>>
    /\ ret = NoValue
    /\ array = <<>> /\ sstack = <<>> /\ sret = NoValue
    /\ grid = <<>> /\ query = NoValue

Next ==
    \/ ReturnSolved
    \/ BeginSearch
    \/ SortEmptyOverflow
    \/ Recurse
    \/ NextCell
    \/ ReturnDeadEnd
    \/ PropagateOk
    \/ ContinueAfterDeadEnd

Spec == Init /\ [][Next]_vars

-----------------------------------------------------------------------------
(* SortSpec: merge_sort on its own *)

\* Slices of (index, candidate set) pairs; the index is the item's place in
\* the input and the set is 1..k for some k.
Slices ==
    UNION {{[i \in 1..n |-> <<i, 1..k[i]>>] : k \in [1..n -> 1..MaxKey]} : n \in 0..MaxLen}

SortInit ==
    /\ array \in Slices
    /\ sstack = <<SortFrame(array)>>
    /\ sret = NoValue
    /\ start = <<>> /\ stack = <<>> /\ ret = NoValue
    /\ grid = <<>> /\ query = NoValue

SortNext ==
    \/ SortBaseCase
    \/ SortCallA
    \/ SortOverflow
    \/ SortCallB
    \/ SortMerge

SortSpec == SortInit /\ [][SortNext]_vars

-----------------------------------------------------------------------------
(* GridSpec: Puzzle::possibilities on its own *)

\* Queried grids: the main puzzle with the cells of FreeCells given any Cell.
\* Cell 50 is the one test_puzzle_is_valid queries; 41 and 23 are in its
\* column, 48 in its row.
FreeOrder == <<41, 48, 23, 50>>
FreeCells == {FreeOrder[k] : k \in 1..NumFree}

QueryGrids ==
    {[i \in Indexes |-> IF i \in FreeCells THEN f[i] ELSE MainPuzzle[i + 1]] :
        f \in [FreeCells -> Cells]}

Answer(cell_index, set) == [kind |-> "value", index |-> cell_index, value |-> set]

GridInit ==
    /\ grid \in QueryGrids
    /\ query = NoValue
    /\ start = <<>> /\ stack = <<>> /\ ret = NoValue
    /\ array = <<>> /\ sstack = <<>> /\ sret = NoValue

\* The call of possibilities, on any cell of the grid
Query ==
    /\ grid # <<>>
    /\ query = NoValue
    /\ \E cell_index \in Indexes :
        query' = Answer(cell_index, possibilities(grid, cell_index))
    /\ UNCHANGED <<grid, solverVars, sortVars>>

GridNext == Query

GridSpec == GridInit /\ [][GridNext]_vars

-----------------------------------------------------------------------------
(* The Sudoku rules, stated on cell indexes: row i / 9, column i % 9 and    *)
(* block (row / 3) * 3 + column / 3.                                       *)

RowOf(i) == i \div 9
ColumnOf(i) == i % 9
BlockOf(i) == (RowOf(i) \div 3) * 3 + (ColumnOf(i) \div 3)

SameGroup(i, j) ==
    RowOf(i) = RowOf(j) \/ ColumnOf(i) = ColumnOf(j) \/ BlockOf(i) = BlockOf(j)

\* the 27 groups: 9 rows, 9 columns, 9 blocks
Groups ==
    {{i \in Indexes : RowOf(i) = n} : n \in GroupIndexes}
        \cup {{i \in Indexes : ColumnOf(i) = n} : n \in GroupIndexes}
        \cup {{i \in Indexes : BlockOf(i) = n} : n \in GroupIndexes}

PeersOf == [i \in Indexes |-> {j \in Indexes : j # i /\ SameGroup(i, j)}]

\* no row, column or block holds a digit twice
RuleValid(g) ==
    \A G \in Groups :
        Cardinality({g[i] : i \in G} \ {Unset}) = Cardinality({i \in G : g[i] # Unset})

AllSet(g) == \A i \in Indexes : g[i] # Unset

Solved(g) == AllSet(g) /\ RuleValid(g)

UnsetCells(g) == {i \in Indexes : g[i] = Unset}

\* h holds the value of g wherever g is set
Keeps(g, h) == \A i \in Indexes : g[i] = Unset \/ h[i] = g[i]

\* the digits set in the row, the column and the block of cell i
SeenFrom(g, i) == {g[j] : j \in PeersOf[i]} \ {Unset}

\* the solved grids that keep every set cell of g
RECURSIVE Completions(_)
Completions(g) ==
    IF AllSet(g)
    THEN IF RuleValid(g) THEN {g} ELSE {}
    ELSE LET i == CHOOSE i \in Indexes : g[i] = Unset
         IN  UNION {Completions([g EXCEPT ![i] = d]) : d \in Digits \ SeenFrom(g, i)}

\* the outermost call of solve_sudoku has ended
Finished == stack = <<>> /\ ret.kind # "none"
Crashed == ret.kind = "StackOverflow"

-----------------------------------------------------------------------------
(* Claims about solve_sudoku, checked under Spec *)

\* C1: for a rule-valid starting grid with exactly one solved completion, the
\* outermost call of solve_sudoku ends with Ok carrying that completion (and
\* never with the stack exhausted).
C1_UniqueSolutionReturned ==
    ((Finished \/ Crashed) /\ RuleValid(start) /\ Cardinality(Completions(start)) = 1)
        => (ret.kind = "Ok" /\ ret.puzzle \in Completions(start))

\* a search over at least three unset cells of such a grid has ended
C1_Witness ==
    /\ Finished
    /\ ret.kind = "Ok"
    /\ RuleValid(start)
    /\ Cardinality(UnsetCells(start)) >= 3
    /\ Completions(start) = {ret.puzzle}

\* C2: on every grid the search ends, either with success or with a dead end
\* reported by the outermost call: every state is either one in which calls
\* are still running, or the end of the outermost call with one of these two
\* outcomes.
C2_AlwaysTerminates ==
    \/ (stack # <<>> /\ ~Crashed)
    \/ (Finished /\ ret.kind \in {"Ok", "DeadEnd"})

\* C3: whenever a call of solve_sudoku returns Ok(g), g is solved (all 81
\* cells set, no digit twice in a row, column or block) and g keeps every set
\* cell of the starting grid and of the grid of every call it is returned
\* through.
C3_OkIsSolvedCompletion ==
    ret.kind = "Ok" =>
        /\ Solved(ret.puzzle)
        /\ Keeps(start, ret.puzzle)
        /\ \A k \in 1..Len(stack) : Keeps(stack[k].puzzle, ret.puzzle)

\* the outermost call returned Ok on a grid that had unset cells
C3_Witness ==
    /\ Finished
    /\ ret.kind = "Ok"
    /\ Cardinality(UnsetCells(start)) >= 2
    /\ ret.puzzle # start

\* C8: on a rule-inconsistent starting grid the search never returns success
\* and never ends in any other outcome than a dead end.
C8_InconsistentIsDeadEnd ==
    ~RuleValid(start) => ret.kind \in {"none", "DeadEnd"}

\* C9: from a rule-valid starting grid, every grid solve_sudoku is called on
\* (the grid of every frame of the call stack, at any depth) is rule-valid.
C9_CallsOnValidGrids ==
    RuleValid(start) => \A k \in 1..Len(stack) : RuleValid(stack[k].puzzle)

\* a recursive call two levels down from a rule-valid starting grid
C9_Witness ==
    /\ RuleValid(start)
    /\ Len(stack) >= 3
    /\ Last(stack).pc = "entry"

\* C10: the grid of every recursive call differs from its caller's grid in
\* exactly one cell, unset in the caller and a digit in the callee, and the
\* recursion is never deeper than the number of unset cells of the start.
C10_OneCellPerLevel ==
    /\ \A k \in 2..Len(stack) :
        LET changed == {i \in Indexes : stack[k].puzzle[i] # stack[k - 1].puzzle[i]}
        IN  /\ Cardinality(changed) = 1
            /\ \A i \in changed : /\ stack[k - 1].puzzle[i] = Unset
                                  /\ stack[k].puzzle[i] \in Digits
    /\ Len(stack) >= 1 => Len(stack) - 1 <= Cardinality(UnsetCells(start))
    /\ Len(stack) - 1 <= CellCount

\* the recursion is as deep as the starting grid has unset cells, at least 3
C10_Witness ==
    /\ Len(stack) >= 4
    /\ Len(stack) - 1 = Cardinality(UnsetCells(start))

-----------------------------------------------------------------------------
(* Claims about merge_sort and merge, checked under SortSpec *)

\* the outermost call of merge_sort has returned
SortReturned == sstack = <<>> /\ sret.kind = "value"

\* neither item comes before the other
Tied(x, y) == ~compare(x, y) /\ ~compare(y, x)

\* C4: merge_sort on an empty slice ends and returns an empty sequence: with
\* an empty input, a state in which no step is left is the return of <<>>.
C4_EmptyReturnsEmpty ==
    array = <<>> => (ENABLED SortNext \/ (SortReturned /\ sret.value = <<>>))

\* C5: when merge is about to run on two non-empty halves whose heads are
\* tied, the head of the first half is emitted first; and the items of the
\* returned sequence that are tied keep their input order.
C5_TiesKeepInputOrder ==
    /\ (/\ sstack # <<>>
        /\ sret.kind = "value"
        /\ Last(sstack).pc = "sort_b"
        /\ Last(sstack).sorted_a # <<>>
        /\ sret.value # <<>>
        /\ Tied(Last(sstack).sorted_a[1], sret.value[1]))
            => merge(Last(sstack).sorted_a, sret.value)[1] = Last(sstack).sorted_a[1]
    /\ SortReturned =>
        \A i, j \in 1..Len(sret.value) :
            (i < j /\ Tied(sret.value[i], sret.value[j]))
                => sret.value[i][1] < sret.value[j][1]

\* C6: on a slice of length at least 1, merge_sort returns a sequence of the
\* same length holding the same items, in which no item comes before the
\* item that precedes it.
C6_SortedPermutation ==
    (SortReturned /\ Len(array) >= 1) =>
        /\ Len(sret.value) = Len(array)
        /\ \A x \in {array[i] : i \in 1..Len(array)} :
            Cardinality({i \in 1..Len(array) : array[i] = x})
                = Cardinality({i \in 1..Len(sret.value) : sret.value[i] = x})
        /\ \A i \in 1..(Len(sret.value) - 1) :
            \/ compare(sret.value[i], sret.value[i + 1])
            \/ ~compare(sret.value[i + 1], sret.value[i])

\* a slice of three or more items, out of order and with a tie, was sorted
C6_Witness ==
    /\ SortReturned
    /\ Len(array) >= 3
    /\ \E i \in 1..(Len(array) - 1) : compare(array[i + 1], array[i])
    /\ \E i, j \in 1..Len(array) : i # j /\ Tied(array[i], array[j])
    /\ sret.value # array

-----------------------------------------------------------------------------
(* Claim about Puzzle::possibilities, checked under GridSpec *)

\* C7: for an unset cell i, possibilities(i) holds no digit that is set in
\* the row i / 9, the column i % 9 or the block (row / 3) * 3 + column / 3 of
\* the cell, and together with those digits it makes up 1..9.
C7_PossibilitiesComplement ==
    (query.kind = "value" /\ grid[query.index] = Unset) =>
        /\ query.value \cap SeenFrom(grid, query.index) = {}
        /\ query.value \cup SeenFrom(grid, query.index) = Digits

\* the query of test_puzzle_is_valid: cell 50 of the main puzzle has {1, 4}
C7_Witness ==
    /\ grid = PuzzleOf(MainPuzzle)
    /\ query = Answer(50, {1, 4})

====
